---- MODULE Spec2Model ----
(***************************************************************************)
(* Model of scionlab/openvpn_config.py: the VPN root CA store (two files), *)
(* the issuance of server and client certificates signed by that CA, and   *)
(* the rendering of the OpenVPN configuration artifacts.                   *)
(*                                                                         *)
(* Strings that the code measures or slices (certificate common names) are *)
(* sequences of one-character strings.  Random draws (RSA keys, serial     *)
(* numbers, uuid4 tokens) are nondeterministic choices from bounded sets.  *)
(***************************************************************************)
EXTENDS Integers, Sequences, FiniteSets, TLC

VARIABLES
    keyFile,       \* the file at settings.VPN_CA_KEY_PATH
    certFile,      \* the file at settings.VPN_CA_CERT_PATH
    pc,            \* per caller: its position in the call it is making
    op,            \* per caller: the function it called last
    arg,           \* per caller: the argument of that call
    key,           \* per caller: the local variable key / client_key
    ca_cert,       \* per caller: the local variable ca_cert
    ret,           \* per caller: what the call returned or raised
    overlapped,    \* history: two calls of write_vpn_ca_config were under way at once
    lastDeletion   \* history: the most recent deletion of a CA file from outside

vars == <<keyFile, certFile, pc, op, arg, key, ca_cert, ret,
          overlapped, lastDeletion>>

files == <<keyFile, certFile>>

----------------------------------------------------------------------------
(* Bounds of the model *)

\* size of the key space rsa.generate_private_key draws from
NKeys == 2
\* size of the space x509.random_serial_number draws from
MaxSerial == 2
\* size of the space uuid.uuid4 draws from
NTokens == 2

Keys == [type : {"RSA"}, n : 1..NKeys]
Serials == 1..MaxSerial

\* the callers (processes or threads) of the module
Procs == {"p1", "p2"}

----------------------------------------------------------------------------
(* Strings *)

Rep(c, n) == [i \in 1..n |-> c]

\* str.replace(old, new) for single characters
Replace(s, old, new) == [i \in 1..Len(s) |-> IF s[i] = old THEN new ELSE s[i]]

HexDigits ==
    <<"0", "1", "2", "3", "4", "5", "6", "7", "8", "9", "a", "b", "c", "d", "e", "f">>

IsHex(s) == \A i \in 1..Len(s) : \E d \in 1..Len(HexDigits) : s[i] = HexDigits[d]

----------------------------------------------------------------------------
(* django settings read by the module *)

VPN_CA_KEY_PASSWORD == "ca-password"
KEY_COUNTRY == "CH"
KEY_PROVINCE == "ZH"
KEY_CITY == "Zurich"
KEY_ORG == <<"O", "r", "g">>
KEY_OU == "OU"
KEY_NAME == "Name"
KEY_EMAIL == "ca@org"
CA_EXPIRE == "CA_EXPIRE days"
KEY_EXPIRE == "KEY_EXPIRE days"

----------------------------------------------------------------------------
(* Results of calls: a value, or a raised exception *)

Ok(v) == [ok |-> TRUE, val |-> v]

Raise(e, h) == [ok |-> FALSE, exc |-> e, hint |-> h]

\* the RuntimeError of load_ca_cert / load_ca_key: names the admin command
\* initialize_root_ca as the remedy
MissingCA == Raise("RuntimeError", TRUE)

NoRet == Ok([kind |-> "none"])

NoKey == [type |-> "none", n |-> 0]

NoCert == [kind |-> "none"]

NoArg == [kind |-> "none"]

----------------------------------------------------------------------------
(* Files *)

Absent == [state |-> "absent"]

Present(d) == [state |-> "present", data |-> d]

Garbage == [pem |-> "GARBAGE"]

\* variant: the key file is taken to be absent on every call
KeyExists_never(f) == FALSE

\* variant: the certificate file is taken to be absent on every call
CertExists_never(f) == FALSE

\* os.path.exists(settings.VPN_CA_KEY_PATH)
KeyExists(f) == f.state # "absent"

\* os.path.exists(settings.VPN_CA_CERT_PATH)
CertExists(f) == f.state # "absent"

----------------------------------------------------------------------------
(* Keys *)

public_key(k) == [type |-> k.type, pub |-> k.n]

\* key.private_bytes(PEM, TraditionalOpenSSL, encryption); enc is the
\* password, or "none" for NoEncryption
private_bytes(k, enc) ==
    [pem |-> IF k.type = "RSA" THEN "RSA PRIVATE KEY" ELSE "EC PRIVATE KEY",
     enc |-> enc, key |-> k]

\* serialization.load_pem_private_key(data, password)
load_pem_private_key(data, password) ==
    IF data.pem \notin {"RSA PRIVATE KEY", "EC PRIVATE KEY"}
    THEN Raise("ValueError", FALSE)
    ELSE IF data.enc = "none"
    THEN Raise("TypeError", FALSE)
    ELSE IF data.enc # password
    THEN Raise("ValueError", FALSE)
    ELSE Ok(data.key)

\* variant: every failure to load the key is reported as a missing CA
load_ca_key_catchall(f) ==
    IF f.state = "absent"
    THEN MissingCA
    ELSE LET r == load_pem_private_key(f.data, VPN_CA_KEY_PASSWORD)
         IN  IF ~r.ok THEN MissingCA
             ELSE IF r.val.type # "RSA" THEN MissingCA
             ELSE r

load_ca_key(f) ==
    IF f.state = "absent"
    THEN MissingCA
    ELSE LET r == load_pem_private_key(f.data, VPN_CA_KEY_PASSWORD)
         IN  IF ~r.ok THEN r
             ELSE IF r.val.type # "RSA" THEN Raise("TypeError", FALSE)
             ELSE r

----------------------------------------------------------------------------
(* Names and certificates *)

OID_CN == "2.5.4.3"

_make_name(common_name) ==
    << <<"2.5.4.6", KEY_COUNTRY>>,
       <<"2.5.4.8", KEY_PROVINCE>>,
       <<"2.5.4.7", KEY_CITY>>,
       <<"2.5.4.10", KEY_ORG>>,
       <<"2.5.4.11", KEY_OU>>,
       <<OID_CN, common_name>>,
       <<"2.5.4.41", KEY_NAME>>,
       <<"1.2.840.113549.1.9.1", KEY_EMAIL>> >>

\* builder.sign(key, hashes.SHA256(), backend)
Sign(k) == [alg |-> "sha256", by |-> k.n]

\* signature verification of a certificate under a public key
Verifies(cert, pub) == cert.sig.alg = "sha256" /\ cert.sig.by = pub.pub

_generate_root_ca_cert(k, serial) ==
    LET subject == _make_name(KEY_ORG \o <<" ", "C", "A">>)
    IN  [subject |-> subject,
         issuer |-> subject,
         spki |-> public_key(k),
         serial |-> serial,
         days |-> CA_EXPIRE,
         san |-> <<>>,
         aki |-> public_key(k),
         ski |-> public_key(k),
         keyUsage |-> <<>>,
         eku |-> <<>>,
         basic |-> [ca |-> TRUE, path_length |-> 0, critical |-> TRUE],
         sig |-> Sign(k)]

\* cert.public_bytes(serialization.Encoding.PEM): the DER fields in order,
\* wrapped in a CERTIFICATE block
public_bytes(c) ==
    [pem |-> "CERTIFICATE",
     der |-> <<c.serial, c.sig, c.issuer, c.days, c.subject, c.spki,
               <<c.san, c.aki, c.ski, c.keyUsage, c.eku, c.basic>> >>]

\* x509.load_pem_x509_certificate(data)
load_pem_x509_certificate(data) ==
    IF data.pem # "CERTIFICATE"
    THEN Raise("ValueError", FALSE)
    ELSE LET d == data.der
         IN  Ok([subject |-> d[5],
                 issuer |-> d[3],
                 spki |-> d[6],
                 serial |-> d[1],
                 days |-> d[4],
                 san |-> d[7][1],
                 aki |-> d[7][2],
                 ski |-> d[7][3],
                 keyUsage |-> d[7][4],
                 eku |-> d[7][5],
                 basic |-> d[7][6],
                 sig |-> d[2]])

load_ca_cert(f) ==
    IF f.state = "absent"
    THEN MissingCA
    ELSE load_pem_x509_certificate(f.data)

----------------------------------------------------------------------------
(* write_vpn_ca_config, one step per file-system access *)

BootPcs == {"boot_genkey", "boot_loadkey", "boot_checkcert", "boot_writecert"}

InBootstrap(p) == pc[p] \in BootPcs

Return(p, r) ==
    /\ pc' = [pc EXCEPT ![p] = "idle"]
    /\ ret' = [ret EXCEPT ![p] = r]
    /\ key' = [key EXCEPT ![p] = NoKey]
    /\ ca_cert' = [ca_cert EXCEPT ![p] = NoCert]

\* line 37: the test of the key file
BootCheckKey(p) ==
    /\ pc[p] = "idle"
    /\ pc' = [pc EXCEPT ![p] = IF KeyExists(keyFile) THEN "boot_loadkey"
                                                      ELSE "boot_genkey"]
    /\ op' = [op EXCEPT ![p] = "bootstrap"]
    /\ arg' = [arg EXCEPT ![p] = NoArg]
    /\ ret' = [ret EXCEPT ![p] = NoRet]
    /\ overlapped' = (overlapped \/ \E q \in Procs \ {p} : InBootstrap(q))
    /\ UNCHANGED <<keyFile, certFile, key, ca_cert, lastDeletion>>

\* lines 39-47: generate the key and write it, password-encrypted
BootGenKey(p) ==
    /\ pc[p] = "boot_genkey"
    /\ \E k \in Keys :
         /\ key' = [key EXCEPT ![p] = k]
         /\ keyFile' = Present(private_bytes(k, VPN_CA_KEY_PASSWORD))
    /\ pc' = [pc EXCEPT ![p] = "boot_checkcert"]
    /\ UNCHANGED <<certFile, op, arg, ca_cert, ret, overlapped, lastDeletion>>

\* variant: the existing key is not loaded; a new key is generated in memory
BootLoadKey_regen(p) ==
    /\ pc[p] = "boot_loadkey"
    /\ \E k \in Keys : key' = [key EXCEPT ![p] = k]
    /\ pc' = [pc EXCEPT ![p] = "boot_checkcert"]
    /\ UNCHANGED <<keyFile, certFile, op, arg, ret, ca_cert, overlapped, lastDeletion>>

\* line 49: load the existing key
BootLoadKey(p) ==
    /\ pc[p] = "boot_loadkey"
    /\ LET r == load_ca_key(keyFile)
       IN  IF r.ok
           THEN /\ key' = [key EXCEPT ![p] = r.val]
                /\ pc' = [pc EXCEPT ![p] = "boot_checkcert"]
                /\ UNCHANGED <<ret, ca_cert>>
           ELSE Return(p, r)
    /\ UNCHANGED <<keyFile, certFile, op, arg, overlapped, lastDeletion>>

\* line 52: the test of the certificate file
BootCheckCert(p) ==
    /\ pc[p] = "boot_checkcert"
    /\ IF CertExists(certFile)
       THEN Return(p, Ok([kind |-> "bootstrap"]))
       ELSE /\ pc' = [pc EXCEPT ![p] = "boot_writecert"]
            /\ UNCHANGED <<ret, key, ca_cert>>
    /\ UNCHANGED <<keyFile, certFile, op, arg, overlapped, lastDeletion>>

\* lines 55-60: build the self-signed certificate and write it
BootWriteCert(p) ==
    /\ pc[p] = "boot_writecert"
    /\ \E s \in Serials :
         certFile' = Present(public_bytes(_generate_root_ca_cert(key[p], s)))
    /\ Return(p, Ok([kind |-> "bootstrap"]))
    /\ UNCHANGED <<keyFile, op, arg, overlapped, lastDeletion>>

\* the caller's discipline of section 5: one bootstrap at a time
SerialBoot(p) == \A q \in Procs \ {p} : ~InBootstrap(q)

----------------------------------------------------------------------------
(* External deletion of the CA files, between calls.  lastDeletion records *)
(* the most recent deletion: of the key file while the certificate file    *)
(* stayed, of the certificate file while the key file stayed, or of the    *)
(* last of the two files.                                                  *)

AllIdle == \A p \in Procs : pc[p] = "idle"

DeleteKey ==
    /\ AllIdle
    /\ KeyExists(keyFile)
    /\ keyFile' = Absent
    /\ lastDeletion' = IF CertExists(certFile) THEN "key_alone" ELSE "both"
    /\ UNCHANGED <<certFile, pc, op, arg, key, ca_cert, ret, overlapped>>

DeleteCert ==
    /\ AllIdle
    /\ CertExists(certFile)
    /\ certFile' = Absent
    /\ lastDeletion' = IF KeyExists(keyFile) THEN "cert_alone" ELSE "both"
    /\ UNCHANGED <<keyFile, pc, op, arg, key, ca_cert, ret, overlapped>>

----------------------------------------------------------------------------
(* Subject names *)

\* limit and uuid_len of _truncated_unique_name
limit == 64
uuid_len == 32

\* uuid.uuid4().hex for the t-th value of the uuid space
UuidHex(t) == [i \in 1..uuid_len |-> HexDigits[((i * t + t) % 16) + 1]]

Tokens == {UuidHex(t) : t \in 1..NTokens}

\* variant: a name of exactly limit characters is truncated too
_truncated_unique_name_strict(name, token) ==
    IF Len(name) < limit
    THEN name
    ELSE SubSeq(name, 1, limit - uuid_len) \o token

\* variant: the length is compared with uuid_len
_truncated_unique_name_short(name, token) ==
    IF Len(name) <= uuid_len
    THEN name
    ELSE SubSeq(name, 1, limit - uuid_len) \o token

_truncated_unique_name(name, token) ==
    IF Len(name) <= limit
    THEN name
    ELSE SubSeq(name, 1, limit - uuid_len) \o token

\* hosts: an infrastructure AS host, and user AS hosts whose owner's email
\* address has n characters
InfraHost ==
    [kind |-> "host", as_path |-> <<"1", "-", "7">>, infra |-> TRUE,
     uid |-> <<"h", "1">>, email |-> <<>>, public_ip |-> <<"f", ":", ":", "1">>]

UserHost(n) ==
    [kind |-> "host", as_path |-> <<"2", "-", "9">>, infra |-> FALSE,
     uid |-> <<"u">>, email |-> Rep("x", n - 2) \o <<"@", "e">>,
     public_ip |-> <<"9", ".", "9">>]

\* user client subjects of 64 and 65 characters
EmailLens == {60, 61}

ClientHosts == {InfraHost} \cup {UserHost(n) : n \in EmailLens}

ServerHosts == {InfraHost}

\* line 139
ServerSubject(h) == h.as_path \o <<"_", "_">> \o Replace(h.public_ip, ":", "_")

\* lines 156-161
ClientSubject(h) ==
    IF h.infra
    THEN h.as_path \o <<"_">> \o h.uid
    ELSE h.email \o <<"_">> \o h.as_path

----------------------------------------------------------------------------
(* Leaf certificates *)

\* x509.KeyUsage(digital_signature, content_commitment, key_encipherment,
\*               data_encipherment, key_agreement, key_cert_sign, crl_sign,
\*               encipher_only, decipher_only)
X509KeyUsage(a, b, c, d, e, f, g, h, i) ==
    [digital_signature |-> a, content_commitment |-> b, key_encipherment |-> c,
     data_encipherment |-> d, key_agreement |-> e, key_cert_sign |-> f,
     crl_sign |-> g, encipher_only |-> h, decipher_only |-> i]

\* variant: the certificate is signed with the subject's key
_make_cert_selfsigned(subject_name, subject_key, issuer_name, issuer_key, extended_key_usage_oid, serial, token) ==
    LET name == _truncated_unique_name(subject_name, token)
    IN  [subject |-> _make_name(name),
         issuer |-> issuer_name,
         spki |-> public_key(subject_key),
         serial |-> serial,
         days |-> KEY_EXPIRE,
         san |-> <<name>>,
         aki |-> public_key(issuer_key),
         ski |-> public_key(subject_key),
         keyUsage |-> [usage |-> X509KeyUsage(TRUE, FALSE, TRUE, FALSE, FALSE,
                                              FALSE, FALSE, FALSE, FALSE),
                       critical |-> TRUE],
         eku |-> [oids |-> <<extended_key_usage_oid>>, critical |-> TRUE],
         basic |-> [ca |-> FALSE, path_length |-> "None", critical |-> TRUE],
         sig |-> Sign(subject_key)]

_make_cert(subject_name, subject_key, issuer_name, issuer_key, extended_key_usage_oid, serial, token) ==
    LET name == _truncated_unique_name(subject_name, token)
    IN  [subject |-> _make_name(name),
         issuer |-> issuer_name,
         spki |-> public_key(subject_key),
         serial |-> serial,
         days |-> KEY_EXPIRE,
         san |-> <<name>>,
         aki |-> public_key(issuer_key),
         ski |-> public_key(subject_key),
         keyUsage |-> [usage |-> X509KeyUsage(TRUE, FALSE, TRUE, FALSE, FALSE,
                                              FALSE, FALSE, FALSE, FALSE),
                       critical |-> TRUE],
         eku |-> [oids |-> <<extended_key_usage_oid>>, critical |-> TRUE],
         basic |-> [ca |-> FALSE, path_length |-> "None", critical |-> TRUE],
         sig |-> Sign(issuer_key)]

\* the (key, certificate) pair of PEM texts the issuers return
Credential(k, cert) ==
    [kind |-> "credential",
     key_pem |-> private_bytes(k, "none"),
     cert_pem |-> public_bytes(cert)]

\* variant: the organization attribute is read instead of the common name
get_cert_common_name_org(cert_data) ==
    LET r == load_pem_x509_certificate(cert_data)
    IN  IF ~r.ok THEN r
        ELSE LET cn == SelectSeq(r.val.subject, LAMBDA a : a[1] = "2.5.4.10")
             IN  IF Len(cn) # 1
                 THEN Raise("ValueError", FALSE)
                 ELSE Ok(cn[1][2])

get_cert_common_name(cert_data) ==
    LET r == load_pem_x509_certificate(cert_data)
    IN  IF ~r.ok THEN r
        ELSE LET cn == SelectSeq(r.val.subject, LAMBDA a : a[1] = OID_CN)
             IN  IF Len(cn) # 1
                 THEN Raise("ValueError", FALSE)
                 ELSE Ok(cn[1][2])

----------------------------------------------------------------------------
(* load_ca_key_material and the two issuers, one step per file read *)

\* load_ca_key_material called on its own
StartLoad(p) ==
    /\ pc[p] = "idle"
    /\ pc' = [pc EXCEPT ![p] = "load_cert"]
    /\ op' = [op EXCEPT ![p] = "load"]
    /\ arg' = [arg EXCEPT ![p] = NoArg]
    /\ ret' = [ret EXCEPT ![p] = NoRet]
    /\ UNCHANGED <<keyFile, certFile, key, ca_cert, overlapped, lastDeletion>>

\* generate_vpn_server_key_material, lines 126-132: the server key first
StartServer(p) ==
    /\ pc[p] = "idle"
    /\ \E h \in ServerHosts, k \in Keys :
         /\ arg' = [arg EXCEPT ![p] = h]
         /\ key' = [key EXCEPT ![p] = k]
    /\ pc' = [pc EXCEPT ![p] = "load_cert"]
    /\ op' = [op EXCEPT ![p] = "server"]
    /\ ret' = [ret EXCEPT ![p] = NoRet]
    /\ UNCHANGED <<keyFile, certFile, ca_cert, overlapped, lastDeletion>>

\* generate_vpn_client_key_material
StartClient(p) ==
    /\ pc[p] = "idle"
    /\ \E h \in ClientHosts : arg' = [arg EXCEPT ![p] = h]
    /\ pc' = [pc EXCEPT ![p] = "load_cert"]
    /\ op' = [op EXCEPT ![p] = "client"]
    /\ ret' = [ret EXCEPT ![p] = NoRet]
    /\ UNCHANGED <<keyFile, certFile, key, ca_cert, overlapped, lastDeletion>>

\* load_ca_key_material, line 65
LoadCaCert(p) ==
    /\ pc[p] = "load_cert"
    /\ LET r == load_ca_cert(certFile)
       IN  IF r.ok
           THEN /\ ca_cert' = [ca_cert EXCEPT ![p] = r.val]
                /\ pc' = [pc EXCEPT ![p] = "load_key"]
                /\ UNCHANGED <<ret, key>>
           ELSE Return(p, r)
    /\ UNCHANGED <<keyFile, certFile, op, arg, overlapped, lastDeletion>>

\* load_ca_key_material, lines 66-68
LoadFinish(p) ==
    /\ pc[p] = "load_key"
    /\ op[p] = "load"
    /\ LET r == load_ca_key(keyFile)
       IN  IF r.ok
           THEN Return(p, Ok([kind |-> "ca_material", ca_key |-> r.val,
                              ca_cert |-> ca_cert[p]]))
           ELSE Return(p, r)
    /\ UNCHANGED <<keyFile, certFile, op, arg, overlapped, lastDeletion>>

\* variant: the server key is also written to the CA key path
ServerFinish_writes(p) ==
    /\ pc[p] = "load_key"
    /\ op[p] = "server"
    /\ LET r == load_ca_key(keyFile)
       IN  IF r.ok
           THEN \E s \in Serials, t \in Tokens :
                  Return(p, Ok(Credential(key[p],
                      _make_cert(ServerSubject(arg[p]), key[p], ca_cert[p].issuer,
                                 r.val, "serverAuth", s, t))))
           ELSE Return(p, r)
    /\ keyFile' = Present(private_bytes(key[p], VPN_CA_KEY_PASSWORD))
    /\ UNCHANGED <<certFile, op, arg, overlapped, lastDeletion>>

\* generate_vpn_server_key_material, lines 136-144
ServerFinish(p) ==
    /\ pc[p] = "load_key"
    /\ op[p] = "server"
    /\ LET r == load_ca_key(keyFile)
       IN  IF r.ok
           THEN \E s \in Serials, t \in Tokens :
                  Return(p, Ok(Credential(key[p],
                      _make_cert(ServerSubject(arg[p]), key[p], ca_cert[p].issuer,
                                 r.val, "serverAuth", s, t))))
           ELSE Return(p, r)
    /\ UNCHANGED <<keyFile, certFile, op, arg, overlapped, lastDeletion>>

\* generate_vpn_client_key_material, lines 148-173
ClientFinish(p) ==
    /\ pc[p] = "load_key"
    /\ op[p] = "client"
    /\ LET r == load_ca_key(keyFile)
       IN  IF r.ok
           THEN \E k \in Keys, s \in Serials, t \in Tokens :
                  Return(p, Ok(Credential(k,
                      _make_cert(ClientSubject(arg[p]), k, ca_cert[p].issuer,
                                 r.val, "clientAuth", s, t))))
           ELSE Return(p, r)
    /\ UNCHANGED <<keyFile, certFile, op, arg, overlapped, lastDeletion>>

----------------------------------------------------------------------------
(* The renderers *)

\* the placeholders of hostfiles/client.conf.tmpl and server.conf.tmpl
CLIENT_CONFIG_TEMPLATE == <<"ServerIP", "ServerPort", "CACert", "ClientCert", "ClientKey">>

SERVER_CONFIG_TEMPLATE ==
    <<"AS", "ServerIP", "ServerPort", "Netmask", "Subnet", "CACert", "ServerCert",
      "ServerKey">>

\* string.Template(tmpl).substitute(**mapping)
Substitute(tmpl, mapping) ==
    IF \E i \in 1..Len(tmpl) : tmpl[i] \notin DOMAIN mapping
    THEN Raise("KeyError", FALSE)
    ELSE Ok([kind |-> "config", text |-> [i \in 1..Len(tmpl) |-> mapping[tmpl[i]]]])

\* the VPN a client or server belongs to, as persisted by the caller
Vpn ==
    [server_ip |-> "192.0.2.1", server_port |-> "1194", server_vpn_ip |-> "10.0.8.1",
     subnet |-> "10.0.8.0/24", netmask |-> "255.255.255.0",
     server_as |-> InfraHost.as_path, cert |-> "server-cert", private_key |-> "server-key"]

generate_vpn_client_config(f, client) ==
    LET r == load_ca_cert(f)
    IN  IF ~r.ok THEN r
        ELSE Substitute(CLIENT_CONFIG_TEMPLATE,
                 [ServerIP |-> Vpn.server_ip, ServerPort |-> Vpn.server_port,
                  CACert |-> public_bytes(r.val), ClientCert |-> client.cert,
                  ClientKey |-> client.private_key])

generate_vpn_server_config(f, vpn) ==
    LET r == load_ca_cert(f)
    IN  IF ~r.ok THEN r
        ELSE Substitute(SERVER_CONFIG_TEMPLATE,
                 [AS |-> vpn.server_as, ServerIP |-> vpn.server_vpn_ip,
                  ServerPort |-> vpn.server_port, Netmask |-> vpn.netmask,
                  Subnet |-> vpn.subnet, CACert |-> public_bytes(r.val),
                  ServerCert |-> vpn.cert, ServerKey |-> vpn.private_key])

ccd_config(vpn_client) ==
    LET r == get_cert_common_name(vpn_client.cert)
    IN  IF ~r.ok THEN r
        ELSE Ok([kind |-> "ccd", common_name |-> r.val,
                 config_string |-> <<"ifconfig-push", vpn_client.ip, Vpn.netmask>>])

\* the caller persists the credential a client issuance returned as a VPN client
VpnClient(h, cred) ==
    [kind |-> "vpn_client", host |-> h, cert |-> cred.cert_pem,
     private_key |-> cred.key_pem, ip |-> "10.0.8.2"]

HoldsClientCredential(p) ==
    /\ pc[p] = "idle"
    /\ op[p] = "client"
    /\ ret[p].ok
    /\ ret[p].val.kind = "credential"

\* a VPN client persisted earlier, with the credential issued to it then
StoredClient ==
    VpnClient(InfraHost,
              Credential([type |-> "RSA", n |-> 1],
                         _make_cert(ClientSubject(InfraHost), [type |-> "RSA", n |-> 1],
                                    _make_name(KEY_ORG \o <<" ", "C", "A">>),
                                    [type |-> "RSA", n |-> 1], "clientAuth", 1,
                                    UuidHex(1))))

RenderClient(p) ==
    /\ pc[p] = "idle"
    /\ arg' = [arg EXCEPT ![p] = StoredClient]
    /\ ret' = [ret EXCEPT ![p] = generate_vpn_client_config(certFile, StoredClient)]
    /\ op' = [op EXCEPT ![p] = "render_client"]
    /\ UNCHANGED <<keyFile, certFile, pc, key, ca_cert, overlapped, lastDeletion>>

RenderServer(p) ==
    /\ pc[p] = "idle"
    /\ op' = [op EXCEPT ![p] = "render_server"]
    /\ arg' = [arg EXCEPT ![p] = NoArg]
    /\ ret' = [ret EXCEPT ![p] = generate_vpn_server_config(certFile, Vpn)]
    /\ UNCHANGED <<keyFile, certFile, pc, key, ca_cert, overlapped, lastDeletion>>

CcdConfig(p) ==
    /\ HoldsClientCredential(p)
    /\ LET c == VpnClient(arg[p], ret[p].val)
       IN  /\ arg' = [arg EXCEPT ![p] = c]
           /\ ret' = [ret EXCEPT ![p] = ccd_config(c)]
    /\ op' = [op EXCEPT ![p] = "ccd"]
    /\ UNCHANGED <<keyFile, certFile, pc, key, ca_cert, overlapped, lastDeletion>>

----------------------------------------------------------------------------
(* Specifications *)

EmptyStore ==
    /\ keyFile = Absent
    /\ certFile = Absent

InitProcs ==
    /\ pc = [p \in Procs |-> "idle"]
    /\ op = [p \in Procs |-> "none"]
    /\ arg = [p \in Procs |-> NoArg]
    /\ key = [p \in Procs |-> NoKey]
    /\ ca_cert = [p \in Procs |-> NoCert]
    /\ ret = [p \in Procs |-> NoRet]
    /\ overlapped = FALSE
    /\ lastDeletion = "none"

Init ==
    /\ EmptyStore
    /\ InitProcs

\* unsynchronized callers of write_vpn_ca_config on an empty store
Next ==
    \E p \in Procs :
        \/ BootCheckKey(p)
        \/ BootGenKey(p)
        \/ BootLoadKey(p)
        \/ BootCheckCert(p)
        \/ BootWriteCert(p)

Spec == Init /\ [][Next]_vars

\* key files an installation may hold: written by write_vpn_ca_config, or
\* imported, or damaged
InitKeyFiles ==
    {Absent, Present(Garbage)}
    \cup {Present(private_bytes(k, VPN_CA_KEY_PASSWORD)) : k \in Keys}
    \cup {Present(private_bytes([type |-> "RSA", n |-> 1], e)) : e \in {"old-password", "none"}}
    \cup {Present(private_bytes([type |-> "EC", n |-> 1], VPN_CA_KEY_PASSWORD))}

InitCertFiles ==
    {Absent, Present(Garbage)}
    \cup {Present(public_bytes(_generate_root_ca_cert(k, s))) : k \in Keys, s \in Serials}

InitStore ==
    /\ keyFile \in InitKeyFiles
    /\ certFile \in InitCertFiles
    /\ InitProcs

\* serialized write_vpn_ca_config and load_ca_key_material on any store
NextStore ==
    \E p \in Procs :
        \/ SerialBoot(p) /\ BootCheckKey(p)
        \/ BootGenKey(p)
        \/ BootLoadKey(p)
        \/ BootCheckCert(p)
        \/ BootWriteCert(p)
        \/ StartLoad(p)
        \/ LoadCaCert(p)
        \/ LoadFinish(p)

SpecStore == InitStore /\ [][NextStore]_vars

\* serialized write_vpn_ca_config with external deletions between the calls
NextDel ==
    \/ \E p \in Procs :
        \/ SerialBoot(p) /\ BootCheckKey(p)
        \/ BootGenKey(p)
        \/ BootLoadKey(p)
        \/ BootCheckCert(p)
        \/ BootWriteCert(p)
    \/ DeleteKey
    \/ DeleteCert

SpecDel == Init /\ [][NextDel]_vars

\* serialized write_vpn_ca_config, with issuance and rendering by concurrent
\* callers, on a store that starts empty
NextIssue ==
    \E p \in Procs :
        \/ SerialBoot(p) /\ BootCheckKey(p)
        \/ BootGenKey(p)
        \/ BootLoadKey(p)
        \/ BootCheckCert(p)
        \/ BootWriteCert(p)
        \/ StartServer(p)
        \/ StartClient(p)
        \/ LoadCaCert(p)
        \/ ServerFinish(p)
        \/ ClientFinish(p)
        \/ RenderClient(p)
        \/ RenderServer(p)
        \/ CcdConfig(p)

SpecIssue == Init /\ [][NextIssue]_vars

----------------------------------------------------------------------------
(* Properties *)

BothFilesPresent == keyFile.state = "present" /\ certFile.state = "present"

KeyLoadable == load_ca_key(keyFile).ok

CertLoadable == load_ca_cert(certFile).ok

StoreReady == KeyLoadable /\ CertLoadable

\* the stored certificate carries the public half of the stored key and is
\* signed by the stored key
KeyMatchesCert ==
    /\ StoreReady
    /\ load_ca_cert(certFile).val.spki = public_key(load_ca_key(keyFile).val)
    /\ Verifies(load_ca_cert(certFile).val, public_key(load_ca_key(keyFile).val))

BootStep(p) ==
    \/ BootCheckKey(p)
    \/ BootGenKey(p)
    \/ BootLoadKey(p)
    \/ BootCheckCert(p)
    \/ BootWriteCert(p)

BootReturnsOk(p) == InBootstrap(p) /\ pc'[p] = "idle" /\ ret'[p].ok

BootCompleted(p) ==
    /\ pc[p] = "idle"
    /\ op[p] = "bootstrap"
    /\ ret[p].ok
    /\ ret[p].val.kind = "bootstrap"

\* C1: write_vpn_ca_config is idempotent.  A call that returns normally
\* leaves a loadable key file and a certificate file behind, and no step of a
\* call made on such a store changes either file: the second of two calls in
\* sequence leaves the key and the certificate as the first left them.
C1_BootstrapIdempotent ==
    [][\A p \in Procs :
         /\ BootReturnsOk(p) => (KeyLoadable' /\ certFile'.state = "present")
         /\ (KeyLoadable /\ certFile.state = "present" /\ BootStep(p))
                => (keyFile' = keyFile /\ certFile' = certFile)]_vars

\* each caller has made a call that returned normally, one after the other,
\* and the store holds a key and the certificate that belongs to it
C1_Witness ==
    /\ \A p \in Procs : BootCompleted(p)
    /\ KeyMatchesCert

LoadFailed(p) == pc[p] = "idle" /\ op[p] = "load" /\ ~ret[p].ok

\* C2, as claimed: every failure of load_ca_key_material is the RuntimeError
\* that names the initialize_root_ca command, whether a file is missing or
\* unusable.
C2_LoadFailuresGuided ==
    \A p \in Procs :
        LoadFailed(p) => (ret[p].exc = "RuntimeError" /\ ret[p].hint)

\* caller p is about to read the certificate file (the key file) in
\* load_ca_cert (load_ca_key)
ReadsCert(p) == pc[p] = "load_cert"

ReadsKey(p) == pc[p] \in {"load_key", "boot_loadkey"}

\* C2, amended: a load of CA material fails with the RuntimeError that names
\* the initialize_root_ca command exactly when the file it reads is missing;
\* when the file is there but cannot be parsed or decrypted, or holds no RSA
\* key, it fails with a ValueError or a TypeError that carries no hint.
C2_GuidedExactlyWhenMissing ==
    [][\A p \in Procs :
         ((ReadsCert(p) \/ ReadsKey(p)) /\ pc'[p] = "idle" /\ ~ret'[p].ok)
            => LET f == IF ReadsCert(p) THEN certFile ELSE keyFile
               IN  IF f.state = "absent"
                   THEN ret'[p].exc = "RuntimeError" /\ ret'[p].hint
                   ELSE ret'[p].exc \in {"ValueError", "TypeError"} /\ ~ret'[p].hint]_vars

\* a load has failed on the missing certificate, and the key load of a
\* bootstrap call has failed on a key file that is there but unusable
C2_Witness ==
    \E p, q \in Procs :
        /\ LoadFailed(p) /\ ret[p] = MissingCA /\ certFile.state = "absent"
        /\ pc[q] = "idle" /\ op[q] = "bootstrap" /\ ~ret[q].ok
        /\ ret[q].exc = "ValueError" /\ ~ret[q].hint /\ keyFile.state = "present"

HoldsCredential(p) ==
    /\ pc[p] = "idle"
    /\ op[p] \in {"server", "client"}
    /\ ret[p].ok
    /\ ret[p].val.kind = "credential"

\* the certificate of the credential p holds
Leaf(p) == load_pem_x509_certificate(ret[p].val.cert_pem).val

\* the subject string the issuer computed for p's request
SubjectOf(p) ==
    IF op[p] = "server" THEN ServerSubject(arg[p]) ELSE ClientSubject(arg[p])

CommonNameOf(p) == get_cert_common_name(ret[p].val.cert_pem)

\* C3: every issued leaf certificate has a critical KeyUsage extension with
\* digitalSignature set and every other usage bit clear.
C3_KeyUsageDigitalSignatureOnly ==
    \A p \in Procs :
        HoldsCredential(p)
            => /\ Leaf(p).keyUsage.critical
               /\ Leaf(p).keyUsage.usage =
                      X509KeyUsage(TRUE, FALSE, FALSE, FALSE, FALSE, FALSE, FALSE,
                                   FALSE, FALSE)

\* C4: the common name of an issued certificate is the subject string itself
\* when that has at most 64 characters; otherwise it has exactly 64
\* characters, the first 32 of the subject string followed by 32 hex digits.
\* Either way it has at most 64 characters.
C4_TruncateUnique ==
    \A p \in Procs :
        HoldsCredential(p)
            => /\ CommonNameOf(p).ok
               /\ LET name == SubjectOf(p)
                      cn == CommonNameOf(p).val
                  IN  /\ Len(cn) <= 64
                      /\ Len(name) <= 64 => cn = name
                      /\ Len(name) > 64
                            => /\ Len(cn) = 64
                               /\ SubSeq(cn, 1, 32) = SubSeq(name, 1, 32)
                               /\ IsHex(SubSeq(cn, 33, 64))
                               /\ SubSeq(cn, 33, 64) \in Tokens

\* a credential for a subject string of more than 64 characters, and one for
\* a subject string of exactly 64
C4_Witness ==
    \E p, q \in Procs :
        /\ HoldsCredential(p) /\ Len(SubjectOf(p)) > 64
        /\ HoldsCredential(q) /\ Len(SubjectOf(q)) = 64

\* the names _make_cert can place in the subject for a subject string
TruncatedNames(name) == {_truncated_unique_name(name, t) : t \in Tokens}

CcdReturned(p) == pc[p] = "idle" /\ op[p] = "ccd"

\* C5: get_cert_common_name of an issued certificate succeeds and returns the
\* (possibly truncated) name _make_cert placed in the subject, which is also
\* the certificate's DNS name; ccd_config of the persisted certificate
\* returns that name as its common name.
C5_CommonNameRoundTrip ==
    \A p \in Procs :
        /\ HoldsCredential(p)
              => /\ CommonNameOf(p).ok
                 /\ CommonNameOf(p).val \in TruncatedNames(SubjectOf(p))
                 /\ <<CommonNameOf(p).val>> = Leaf(p).san
        /\ CcdReturned(p)
              => /\ ret[p].ok
                 /\ ret[p].val.common_name \in TruncatedNames(ClientSubject(arg[p].host))
                 /\ <<ret[p].val.common_name>> =
                        load_pem_x509_certificate(arg[p].cert).val.san

\* ccd_config has returned for the certificate of a client whose subject
\* string was truncated
C5_Witness ==
    \E p \in Procs :
        /\ CcdReturned(p)
        /\ ret[p].ok
        /\ Len(ClientSubject(arg[p].host)) > 64
        /\ Len(ret[p].val.common_name) = 64

\* C6, as claimed: two client certificates issued for the same endpoint have
\* the same common name.
C6_SameEndpointSameName ==
    \A p, q \in Procs :
        (HoldsClientCredential(p) /\ HoldsClientCredential(q) /\ arg[p] = arg[q])
            => CommonNameOf(p) = CommonNameOf(q)

\* C6, amended: two client certificates issued for the same endpoint have the
\* same common name when the endpoint's subject string has at most 64
\* characters.
C6_SameEndpointSameShortName ==
    \A p, q \in Procs :
        (/\ HoldsClientCredential(p)
         /\ HoldsClientCredential(q)
         /\ arg[p] = arg[q]
         /\ Len(ClientSubject(arg[p])) <= 64)
            => CommonNameOf(p) = CommonNameOf(q)

\* two distinct certificates issued for one user endpoint whose subject
\* string has exactly 64 characters
C6_Witness ==
    \E p, q \in Procs :
        /\ HoldsClientCredential(p)
        /\ HoldsClientCredential(q)
        /\ arg[p] = arg[q]
        /\ ~arg[p].infra
        /\ Len(ClientSubject(arg[p])) = 64
        /\ Leaf(p).serial # Leaf(q).serial

\* C7: a leaf certificate issued from a store that serialized calls of
\* write_vpn_ca_config created from nothing verifies against the stored CA
\* certificate: its issuer is the CA certificate's subject and its signature
\* verifies under the CA certificate's public key.
C7_ChainVerifies ==
    \A p \in Procs :
        HoldsCredential(p)
            => /\ CertLoadable
               /\ Leaf(p).issuer = load_ca_cert(certFile).val.subject
               /\ Verifies(Leaf(p), load_ca_cert(certFile).val.spki)

\* a server certificate and a client certificate have been issued
C7_Witness ==
    \E p, q \in Procs :
        /\ HoldsCredential(p) /\ op[p] = "server"
        /\ HoldsCredential(q) /\ op[q] = "client"

IssueRenderOps == {"server", "client", "render_client", "render_server", "ccd"}

\* caller p takes a step of an issuer or a renderer
IssueRenderStep(p) ==
    /\ op'[p] \in IssueRenderOps
    /\ (pc'[p] # pc[p] \/ op'[p] # op[p] \/ ret'[p] # ret[p])

\* r is a result that a call of the issuer or renderer o with argument a (and
\* server key k) can return when it runs alone on the store as it is: for an
\* issuer, the credential built from the stored CA material for some draw of
\* the key, the serial number and the uuid
IsSoloOutcome(r, o, a, k) ==
    LET c == load_ca_cert(certFile)
        ck == load_ca_key(keyFile)
    IN  CASE o = "render_client" -> r = generate_vpn_client_config(certFile, a)
          [] o = "render_server" -> r = generate_vpn_server_config(certFile, Vpn)
          [] o = "ccd" -> r = ccd_config(a)
          [] o \in {"server", "client"} ->
                IF ~c.ok THEN r = c
                ELSE IF ~ck.ok THEN r = ck
                ELSE /\ r.ok
                     /\ r.val.kind = "credential"
                     /\ LET k2 == r.val.key_pem.key
                            s == load_pem_x509_certificate(r.val.cert_pem).val.serial
                        IN  /\ k2 \in Keys
                            /\ s \in Serials
                            /\ o = "server" => k2 = k
                            /\ \E t \in Tokens :
                                 r = Ok(Credential(k2,
                                        _make_cert(IF o = "server" THEN ServerSubject(a)
                                                                   ELSE ClientSubject(a),
                                                   k2, c.val.issuer, ck.val,
                                                   IF o = "server" THEN "serverAuth"
                                                                   ELSE "clientAuth",
                                                   s, t)))

\* C8: no step of an issuer or renderer changes the CA key file or the CA
\* certificate file, and on a ready store a call returns, whatever the other
\* caller is doing, a result it could have returned running alone.
C8_IssuanceReadOnly ==
    [][\A p \in Procs :
         IssueRenderStep(p)
            => /\ keyFile' = keyFile
               /\ certFile' = certFile
               /\ (StoreReady /\ pc'[p] = "idle")
                     => /\ ret'[p].ok
                        /\ IsSoloOutcome(ret'[p], op'[p], arg'[p], key[p])]_vars

\* on a ready store, a server issuance and a client issuance are under way at
\* the same time, each between its two reads of the store
C8_Witness ==
    /\ StoreReady
    /\ \E p, q \in Procs :
         /\ pc[p] = "load_key" /\ op[p] = "server"
         /\ pc[q] = "load_key" /\ op[q] = "client"

\* C9: with unsynchronized callers, two calls of write_vpn_ca_config can
\* both find the key file absent and both write a key, and the store can end
\* with a certificate that does not belong to the stored key; as long as no
\* two calls overlapped, a store that has both files has a certificate that
\* belongs to the stored key.
C9_SerializedBootstrapConsistent ==
    (~overlapped /\ BothFilesPresent) => KeyMatchesCert

\* both calls have returned and the stored certificate, self-signed, carries
\* another key than the stored one
C9_Witness ==
    /\ \A p \in Procs : BootCompleted(p)
    /\ overlapped
    /\ StoreReady
    /\ ~KeyMatchesCert
    /\ Verifies(load_ca_cert(certFile).val, load_ca_cert(certFile).val.spki)

\* C10, as claimed: whatever was deleted between the calls, once a call of
\* write_vpn_ca_config has returned and both files exist, the stored
\* certificate belongs to the stored key.
C10_StoreConsistent ==
    (AllIdle /\ (\E p \in Procs : BootCompleted(p))
             /\ BothFilesPresent)
        => KeyMatchesCert

\* C10, amended: the same, unless the most recent deletion removed the key
\* file and left the certificate file in place.
C10_StoreConsistentUnlessKeyDeletedAlone ==
    (AllIdle /\ (\E p \in Procs : BootCompleted(p))
             /\ BothFilesPresent
             /\ lastDeletion # "key_alone")
        => KeyMatchesCert

\* the certificate file was deleted on its own and a later call has written
\* a new certificate
C10_Witness ==
    /\ AllIdle
    /\ \E p \in Procs : BootCompleted(p)
    /\ lastDeletion = "cert_alone"
    /\ KeyMatchesCert

====
